---- MODULE Spec2Model ----
(***************************************************************************)
(* autoesv.py: copies Pokemon egg files (.pk6, .pk7) from a source         *)
(* directory into subdirectories of a destination directory named after    *)
(* each egg's ESV.                                                         *)
(*                                                                         *)
(* Python values are modelled as follows.                                  *)
(*  - str:   a sequence of one-character strings.                          *)
(*  - bytes: a sequence of numbers in 0..255.                              *)
(*  - int:   an arbitrary-precision two's complement number, a record      *)
(*           [sign, limbs]: limbs are base-65536 digits, least significant *)
(*           first, and sign (0 or -1) is the digit that repeats above     *)
(*           them.  0xFFFFFFFF does not fit a model-checker integer, so no *)
(*           Python int is held as one.                                    *)
(***************************************************************************)
EXTENDS Integers, Sequences, FiniteSets, TLC

VARIABLES
  dirs,      \* file system: the paths that are directories
  wdirs,     \* file system: the directories the process may write to
  files,     \* file system: path -> [data, readable, writable] of the regular files
  pk_dir,    \* args.pk_dir
  pc,        \* position of the run
  listing,   \* the list listdir(in_dir) returned
  idx,       \* position of the loop of process_in_dir in listing
  data,      \* process_pkx: data
  pkinfo,    \* process_pkx: pkinfo
  esv,       \* process_pkx: esv
  dir_name,  \* process_pkx: dir_name
  stdout,    \* the lines printed so far
  err,       \* the exception that ended the run, if any
  exitcode,  \* exit status of the process, once it has ended
  opened,    \* history: the paths opened for reading, in order
  copies,    \* history: the copies attempted, in order
  checked,   \* history: <<file, directory>> pairs whose write access was verified
  snap,      \* history: dirs and files as process_pkx found them for the current file
  call,      \* the function applied last, with its arguments (function-level runs)
  ret        \* what that call returned or raised

vars == <<dirs, wdirs, files, pk_dir, pc, listing, idx, data, pkinfo, esv, dir_name,
          stdout, err, exitcode, opened, copies, checked, snap, call, ret>>

----------------------------------------------------------------------------
(* Python str                                                              *)

Min(a, b) == IF a < b THEN a ELSE b
Max(a, b) == IF a > b THEN a ELSE b

\* s[-n:]
LastChars(s, n) == SubSeq(s, Max(1, Len(s) - n + 1), Len(s))

\* s[:n]
FirstChars(s, n) == SubSeq(s, 1, Min(n, Len(s)))

\* position of the last occurrence of c in s, 0 if there is none (str.rfind + 1)
RFind(s, c) ==
  LET hits == {i \in 1..Len(s) : s[i] = c}
  IN  IF hits = {} THEN 0 ELSE CHOOSE i \in hits : \A j \in hits : j <= i

\* os.path.basename
basename(p) == SubSeq(p, RFind(p, "/") + 1, Len(p))

\* os.path.splitext: the extension starts at the last dot of the last path
\* component, unless only dots precede it there
splitext(p) ==
  LET sep == RFind(p, "/")
      dot == RFind(p, ".")
      named == \E i \in (sep + 1)..(dot - 1) : p[i] # "."
  IN  IF dot > sep /\ named
      THEN <<SubSeq(p, 1, dot - 1), SubSeq(p, dot, Len(p))>>
      ELSE <<p, <<>>>>

\* os.path.join of two components
join(a, b) ==
  IF b # <<>> /\ b[1] = "/" THEN b
  ELSE IF a = <<>> \/ a[Len(a)] = "/" THEN a \o b
  ELSE a \o <<"/">> \o b

\* directory part of a path (os.path.dirname); "/" is its own parent
dirname(p) ==
  LET sep == RFind(p, "/")
  IN  IF sep <= 1 THEN <<"/">> ELSE SubSeq(p, 1, sep - 1)

----------------------------------------------------------------------------
(* Python int                                                              *)

LimbBase == 256 * 256

\* the digit that repeats above the limbs
Ext(sign) == IF sign = 0 THEN 0 ELSE LimbBase - 1

RECURSIVE Strip(_, _)
Strip(sign, limbs) ==
  IF limbs # <<>> /\ limbs[Len(limbs)] = Ext(sign)
  THEN Strip(sign, SubSeq(limbs, 1, Len(limbs) - 1))
  ELSE limbs

\* the canonical form of a number
PyInt(sign, limbs) == [sign |-> sign, limbs |-> Strip(sign, limbs)]

\* a number small enough to write down, as a Python int
RECURSIVE LimbsOf(_)
LimbsOf(n) ==
  IF n = 0 \/ n = -1 THEN <<>> ELSE <<n % LimbBase>> \o LimbsOf(n \div LimbBase)
Py(n) == PyInt(IF n < 0 THEN -1 ELSE 0, LimbsOf(n))

\* a Python int of at most one limb, as a number
Small(x) == Len(x.limbs) <= 1
ToInt(x) == IF x.limbs = <<>> THEN x.sign ELSE x.sign * LimbBase + x.limbs[1]

Limb(x, i) == IF i <= Len(x.limbs) THEN x.limbs[i] ELSE Ext(x.sign)

\* bitwise operations on two digits below 2^w
RECURSIVE BitXor(_, _), BitAnd(_, _)
BitXor(a, b) ==
  IF a = 0 THEN b ELSE IF b = 0 THEN a
  ELSE ((a + b) % 2) + 2 * BitXor(a \div 2, b \div 2)
BitAnd(a, b) ==
  IF a = 0 \/ b = 0 THEN 0
  ELSE ((a % 2) * (b % 2)) + 2 * BitAnd(a \div 2, b \div 2)

RECURSIVE Pow2(_)
Pow2(n) == IF n = 0 THEN 1 ELSE 2 * Pow2(n - 1)

\* x ^ y
PyXor(x, y) ==
  LET n == Max(Len(x.limbs), Len(y.limbs))
  IN  PyInt(IF x.sign = y.sign THEN 0 ELSE -1,
            [i \in 1..n |-> BitXor(Limb(x, i), Limb(y, i))])

\* x & y
PyAnd(x, y) ==
  LET n == Max(Len(x.limbs), Len(y.limbs))
  IN  PyInt(IF x.sign = -1 /\ y.sign = -1 THEN -1 ELSE 0,
            [i \in 1..n |-> BitAnd(Limb(x, i), Limb(y, i))])

\* x >> n (an arithmetic shift: the sign is kept)
RECURSIVE PyShr(_, _)
PyShr(x, n) ==
  IF n >= 16
  THEN PyShr(PyInt(x.sign, IF x.limbs = <<>> THEN <<>> ELSE Tail(x.limbs)), n - 16)
  ELSE PyInt(x.sign,
             [i \in 1..Len(x.limbs) |->
                (Limb(x, i) \div Pow2(n)) + (Limb(x, i + 1) % Pow2(n)) * Pow2(16 - n)])

\* x > y
RECURSIVE LimbsGt(_, _, _)
LimbsGt(x, y, i) ==
  IF i = 0 THEN FALSE
  ELSE IF Limb(x, i) # Limb(y, i) THEN Limb(x, i) > Limb(y, i)
  ELSE LimbsGt(x, y, i - 1)
PyGt(x, y) ==
  IF x.sign # y.sign THEN x.sign > y.sign
  ELSE LimbsGt(x, y, Max(Len(x.limbs), Len(y.limbs)))

\* x + y
RECURSIVE AddLimbs(_, _, _, _, _)
AddLimbs(x, y, i, n, carry) ==
  IF i > n THEN <<>>
  ELSE LET t == Limb(x, i) + Limb(y, i) + carry
       IN  <<t % LimbBase>> \o AddLimbs(x, y, i + 1, n, t \div LimbBase)
PyAdd(x, y) ==
  LET n == Max(Len(x.limbs), Len(y.limbs)) + 1
      sum == AddLimbs(x, y, 1, n, 0)
  IN  PyInt(IF sum[n] >= LimbBase \div 2 THEN -1 ELSE 0, sum)

\* x * 0x10000
PyMul65536(x) == PyInt(x.sign, <<0>> \o x.limbs)

\* -x
PyNeg(x) ==
  PyAdd(PyInt(-1 - x.sign, [i \in 1..Len(x.limbs) |-> LimbBase - 1 - x.limbs[i]]), Py(1))

----------------------------------------------------------------------------
(* str.format of numbers                                                   *)

Digit(d) == <<"0", "1", "2", "3", "4", "5", "6", "7", "8", "9",
              "A", "B", "C", "D", "E", "F">>[d + 1]

\* limbs divided by a one-digit number d: quotient limbs and remainder
RECURSIVE DivLimbs(_, _)
DivLimbs(limbs, d) ==
  IF limbs = <<>> THEN [q |-> <<>>, r |-> 0]
  ELSE LET hi == DivLimbs(Tail(limbs), d)
           cur == hi.r * LimbBase + Head(limbs)
       IN  [q |-> <<cur \div d>> \o hi.q, r |-> cur % d]

\* the digits of x > 0 in base d, most significant first ("" for 0)
RECURSIVE DigitsOf(_, _)
DigitsOf(x, d) ==
  IF x.limbs = <<>> THEN <<>>
  ELSE LET qr == DivLimbs(x.limbs, d)
       IN  DigitsOf(PyInt(0, qr.q), d) \o <<Digit(qr.r)>>

\* the number in base d, with a sign, padded with zeros after the sign to
\* width w: '{:0w}', '{:0wd}' (d = 10), '{:0wX}' (d = 16); w = 0 is str(x)
RECURSIVE Zeros(_)
Zeros(n) == IF n <= 0 THEN <<>> ELSE <<"0">> \o Zeros(n - 1)
FormatInt(x, w, d) ==
  LET mag == IF x.sign = 0 THEN x ELSE PyNeg(x)
      ds == IF mag.limbs = <<>> THEN <<"0">> ELSE DigitsOf(mag, d)
      sgn == IF x.sign = 0 THEN <<>> ELSE <<"-">>
  IN  sgn \o Zeros(w - Len(sgn) - Len(ds)) \o ds

\* limbs * m + c, for one-digit m and c
RECURSIVE MulAddLimbs(_, _, _)
MulAddLimbs(limbs, m, c) ==
  IF limbs = <<>> THEN (IF c = 0 THEN <<>> ELSE <<c>>)
  ELSE LET t == Head(limbs) * m + c
       IN  <<t % LimbBase>> \o MulAddLimbs(Tail(limbs), m, t \div LimbBase)

\* int(s) for a string of decimal digits
RECURSIVE ParseInt(_)
ParseInt(s) ==
  IF s = <<>> THEN Py(0)
  ELSE PyInt(0, MulAddLimbs(ParseInt(SubSeq(s, 1, Len(s) - 1)).limbs, 10,
                            CHOOSE k \in 0..9 : Digit(k) = s[Len(s)]))

----------------------------------------------------------------------------
(* Results of a call: a value returned or an exception raised              *)

Return(v) == [raised |-> FALSE, type |-> "", value |-> v]
Raised(t, a) == [raised |-> TRUE, type |-> t, value |-> a]

(* Python objects whose type the code tests                                *)
StrObj(s) == [type |-> "str", v |-> s]
IntObj(x) == [type |-> "int", v |-> x]
\* a != b
PyNe(a, b) == a.type # b.type \/ a.v # b.v

----------------------------------------------------------------------------
(* The classifier                                                          *)

\* get_tsv without its parentheses: tid ^ sid >> 4 shifts sid alone
get_tsv_unparenthesised(tid, sid) == PyXor(tid, PyShr(sid, 4))

\* get_tsv(tid, sid)
get_tsv(tid, sid) == PyShr(PyXor(tid, sid), 4)

MaxPid == PyInt(0, <<65535, 65535>>)   \* 0xffffffff
LowMask == Py(65535)                   \* 0xffff

\* get_esv without the final shift
get_esv_noshift(pid) ==
  IF PyGt(pid, MaxPid) THEN Raised("ValueError", pid)
  ELSE Return(PyXor(PyAnd(pid, LowMask), PyShr(pid, 16)))

\* get_esv(pid)
get_esv(pid) ==
  IF PyGt(pid, MaxPid) THEN Raised("ValueError", pid)
  ELSE LET high == PyShr(pid, 16)
           low == PyAnd(pid, LowMask)
       IN  Return(PyShr(PyXor(low, high), 4))

----------------------------------------------------------------------------
(* The record decoder                                                      *)

FieldNames == <<"encryption_constant", "sanity", "checksum", "species", "held_item",
                "tid", "sid", "exp", "ability", "ability_number",
                "training_bag_hits", "training_bag", "pid">>

\* '<IHHHHHHIBBBBI' after the byte-order mark (little-endian, no padding)
frm == <<"I", "H", "H", "H", "H", "H", "H", "I", "B", "B", "B", "B", "I">>

SizeOf(c) == CASE c = "I" -> 4 [] c = "H" -> 2 [] c = "B" -> 1

\* struct.calcsize
RECURSIVE calcsize(_)
calcsize(f) == IF f = <<>> THEN 0 ELSE SizeOf(Head(f)) + calcsize(Tail(f))

\* the unsigned little-endian number in buf[off+1 .. off+size]
UnpackAt(buf, off, size) ==
  LET b(k) == IF k <= size THEN buf[off + k] ELSE 0
  IN  PyInt(0, <<b(1) + 256 * b(2), b(3) + 256 * b(4)>>)

\* struct.unpack
unpack(f, buf) ==
  IF Len(buf) # calcsize(f)
  THEN Raised("struct.error", Len(buf))
  ELSE Return([k \in 1..Len(f) |->
                 UnpackAt(buf, calcsize(SubSeq(f, 1, k - 1)), SizeOf(f[k]))])

\* extract_pkdata that fills a short buffer with zero bytes
extract_pkdata_padded(d) ==
  LET buf == FirstChars(d \o [k \in 1..calcsize(frm) |-> 0], calcsize(frm))
      r == unpack(frm, buf)
  IN  Return([n \in {FieldNames[k] : k \in 1..Len(FieldNames)} |->
                r.value[CHOOSE k \in 1..Len(FieldNames) : FieldNames[k] = n]])

\* extract_pkdata(data)
extract_pkdata(d) ==
  LET r == unpack(frm, FirstChars(d, calcsize(frm)))
  IN  IF r.raised THEN r
      ELSE Return([n \in {FieldNames[k] : k \in 1..Len(FieldNames)} |->
                     r.value[CHOOSE k \in 1..Len(FieldNames) : FieldNames[k] = n]])

----------------------------------------------------------------------------
(* The file system: fs = [dirs, wdirs, files]                              *)

\* os.path.exists
exists(fs, p) == p \in fs.dirs \/ p \in DOMAIN fs.files

\* os.access(p, W_OK)
access(fs, p) == p \in fs.wdirs \/ (p \in DOMAIN fs.files /\ fs.files[p].writable)

\* os.mkdir: the parent must be a directory the process may write to; the
\* new directory is the process's own
mkdir(fs, p) ==
  IF ~exists(fs, p) /\ dirname(p) \in fs.dirs /\ dirname(p) \in fs.wdirs
  THEN [ok |-> TRUE,
        fs |-> [fs EXCEPT !.dirs = @ \cup {p}, !.wdirs = @ \cup {p}]]
  ELSE [ok |-> FALSE, fs |-> fs]

\* os.makedirs: creates the missing ancestors, then the directory; what it
\* created before an error stays
RECURSIVE makedirs(_, _)
makedirs(fs, p) ==
  LET head == dirname(p)
      up == IF head # p /\ ~exists(fs, head) THEN makedirs(fs, head)
            ELSE [ok |-> TRUE, fs |-> fs]
  IN  IF up.ok THEN mkdir(up.fs, p) ELSE up

----------------------------------------------------------------------------
(* The directory router                                                    *)

\* ensure_dir: the path composed of its arguments
ensure_dir_name(out_dir, esvArg, pkx) ==
  LET has_esv == PyNe(esvArg, StrObj(<<>>))
  IN  out_dir
      \o (IF has_esv /\ pkx # <<>> THEN <<"/">> ELSE <<>>)
      \o pkx
      \o (IF has_esv THEN <<"/">> ELSE <<>>)
      \o (IF has_esv THEN FormatInt(esvArg.v, 4, 10) ELSE <<>>)

\* ensure_dir: the directory is created if nothing is there (errors of the
\* creation are dropped)
ensure_dir_make(fs, name) ==
  IF ~exists(fs, name) THEN makedirs(fs, name).fs ELSE fs

\* ensure_dir without the write-access check
ensure_dir_ok_always(fs, name) == TRUE

\* ensure_dir: whether the write-access check lets the path through
ensure_dir_ok(fs, name) == access(fs, name)

\* ensure_dir(out_dir, esv='', pkx=''): the result, and the file system it leaves
ensure_dir(fs, out_dir, esvArg, pkx) ==
  LET name == ensure_dir_name(out_dir, esvArg, pkx)
      made == ensure_dir_make(fs, name)
  IN  [res |-> IF ensure_dir_ok(made, name) THEN Return(name)
               ELSE Raised("IOError", name),
       fs |-> made]

----------------------------------------------------------------------------
(* The copy                                                                *)

\* copy_file: the name of the copy
copy_name(dest_dir, file) == dest_dir \o <<"/">> \o basename(file)

\* shutil.copyfile(src, dst): dst is written with the content of src, and
\* (copystat) gets its permissions
copyfile(fs, src, dst) ==
  IF dst = src
    THEN [res |-> Raised("SameFileError", dst), fs |-> fs]
  ELSE IF src \notin DOMAIN fs.files
    THEN [res |-> Raised("OSError", src), fs |-> fs]
  ELSE IF ~fs.files[src].readable
    THEN [res |-> Raised("PermissionError", src), fs |-> fs]
  ELSE IF dst \in fs.dirs
    THEN [res |-> Raised("IsADirectoryError", dst), fs |-> fs]
  ELSE IF dirname(dst) \notin fs.dirs
    THEN [res |-> Raised("OSError", dst), fs |-> fs]
  ELSE IF (dst \in DOMAIN fs.files /\ ~fs.files[dst].writable)
          \/ (dst \notin DOMAIN fs.files /\ dirname(dst) \notin fs.wdirs)
    THEN [res |-> Raised("PermissionError", dst), fs |-> fs]
  ELSE [res |-> Return(dst),
        fs |-> [fs EXCEPT !.files =
                  [q \in DOMAIN fs.files \cup {dst} |->
                     IF q = dst THEN fs.files[src] ELSE fs.files[q]]]]

\* shutil.copy2(src, dst): a dst that is a directory stands for the file of
\* src's name in it
copy2(fs, src, dst) ==
  copyfile(fs, src, IF dst \in fs.dirs THEN join(dst, basename(src)) ELSE dst)

\* copy_file(dest_dir, file)
copy_file(fs, dest_dir, file) == copy2(fs, file, copy_name(dest_dir, file))

\* read_bin(file)
read_bin(fs, file) ==
  IF file \in fs.dirs THEN Raised("IsADirectoryError", file)
  ELSE IF file \notin DOMAIN fs.files THEN Raised("FileNotFoundError", file)
  ELSE IF ~fs.files[file].readable THEN Raised("PermissionError", file)
  ELSE Return(fs.files[file].data)

----------------------------------------------------------------------------
(* The info lines                                                          *)

\* print_pk6info: the values the line shows
pk6info(file, info) ==
  [name |-> basename(file),
   species |-> FormatInt(info.species, 3, 10),
   tid |-> FormatInt(info.tid, 5, 10),
   sid |-> FormatInt(info.sid, 5, 10),
   pid |-> FormatInt(info.pid, 8, 16),
   tsv |-> FormatInt(get_tsv(info.tid, info.sid), 4, 10),
   esv |-> FormatInt(get_esv(info.pid).value, 4, 10)]

\* print_pk7info: the values the line shows
pk7info(file, info) ==
  LET sid_str == FirstChars(FormatInt(PyMul65536(info.sid), 10, 10), 4)
      sid_num == ParseInt(sid_str)
      tid_num == PyAdd(info.tid, PyMul65536(info.sid))
      tid_str == LastChars(FormatInt(tid_num, 0, 10), 6)
  IN  [name |-> basename(file),
       species |-> FormatInt(info.species, 3, 10),
       tid |-> tid_str,
       sid |-> FormatInt(sid_num, 4, 10),
       pid |-> FormatInt(info.pid, 8, 16),
       tsv |-> FormatInt(get_tsv(info.tid, info.sid), 4, 10),
       esv |-> FormatInt(get_esv(info.pid).value, 4, 10)]

----------------------------------------------------------------------------
(* The runs checked: the directories of the command line, the entries the  *)
(* source directory may hold and the states the destination may be in      *)

MaxFiles == 3      \* entries of the source directory
MaxSample == 3     \* sample 16-bit values k * 0x1111, k in 0..MaxSample

InDir == <<"/", "i">>    \* in_dir
OutDir == <<"/", "o">>   \* out_dir
Root == <<"/">>

PK6 == <<"p", "k", "6">>
PK7 == <<"p", "k", "7">>

\* the bytes of an unsigned little-endian number below 2^16
LE16(n) == <<n % 256, n \div 256>>

\* the first bytes of an egg file with the given fields
Egg(species, tid, sid, pidlo, pidhi) ==
  <<4, 3, 2, 1>> \o LE16(0) \o LE16(43981) \o LE16(species) \o LE16(0)
  \o LE16(tid) \o LE16(sid) \o <<0, 0, 0, 0>> \o <<65, 1, 0, 0>>
  \o LE16(pidlo) \o LE16(pidhi)

\* what the source directory may hold: pid is the personality value the file
\* was written with, as <<low half, high half>>
Pool == <<
  [name |-> <<"a", ".", "p", "k", "6">>, kind |-> "file", readable |-> TRUE,
   pid |-> <<112, 0>>, data |-> Egg(25, 12345, 54321, 112, 0)],
  [name |-> <<"b", ".", "p", "k", "7">>, kind |-> "file", readable |-> TRUE,
   pid |-> <<22136, 4660>>, data |-> Egg(133, 1, 2, 22136, 4660) \o <<9, 9>>],
  [name |-> <<"c", ".", "p", "k", "6">>, kind |-> "file", readable |-> TRUE,
   pid |-> <<112, 0>>, data |-> SubSeq(Egg(25, 12345, 54321, 112, 0), 1, 27)],
  [name |-> <<"d", ".", "t", "x", "t">>, kind |-> "file", readable |-> TRUE,
   pid |-> <<0, 0>>, data |-> <<104, 105, 10>>],
  [name |-> <<"s", "u", "b">>, kind |-> "dir", readable |-> TRUE,
   pid |-> <<0, 0>>, data |-> <<>>],
  [name |-> <<"e", ".", "p", "k", "6">>, kind |-> "file", readable |-> TRUE,
   pid |-> <<112, 0>>, data |-> Egg(1, 777, 4095, 112, 0) \o <<1>>],
  [name |-> <<"u", ".", "p", "k", "7">>, kind |-> "file", readable |-> FALSE,
   pid |-> <<112, 0>>, data |-> Egg(25, 12345, 54321, 112, 0)],
  [name |-> <<"z", ".", "p", "k", "7">>, kind |-> "file", readable |-> TRUE,
   pid |-> <<65535, 65535>>, data |-> Egg(7, 65535, 0, 65535, 65535)]
>>

PoolEntry(name) == Pool[CHOOSE i \in 1..Len(Pool) : Pool[i].name = name]

Old == [data |-> <<0>>, readable |-> TRUE, writable |-> TRUE]

\* the states of the destination: the directories that exist at and below
\* out_dir, those among them and "/" the process may write to, and the files
DstStates == {
  [dirs |-> {}, wdirs |-> {Root}, files |-> <<>>],
  [dirs |-> {}, wdirs |-> {}, files |-> <<>>],
  [dirs |-> {OutDir}, wdirs |-> {Root, OutDir}, files |-> <<>>],
  [dirs |-> {OutDir}, wdirs |-> {Root}, files |-> <<>>],
  [dirs |-> {OutDir, OutDir \o <<"/", "0", "0", "0", "7">>},
   wdirs |-> {Root, OutDir}, files |-> <<>>],
  [dirs |-> {OutDir, OutDir \o <<"/", "P", "K", "6">>},
   wdirs |-> {Root, OutDir}, files |-> <<>>],
  [dirs |-> {OutDir, OutDir \o <<"/", "0", "0", "0", "7">>},
   wdirs |-> {Root, OutDir, OutDir \o <<"/", "0", "0", "0", "7">>},
   files |-> (OutDir \o <<"/", "0", "0", "0", "7", "/", "a", ".", "p", "k", "6">>) :> Old],
  [dirs |-> {OutDir}, wdirs |-> {Root, OutDir},
   files |-> (OutDir \o <<"/", "0", "0", "0", "7">>) :> Old]
}

\* the file system holding the entries S of the pool in in_dir and a destination
SrcFiles(S) ==
  LET F == {i \in S : Pool[i].kind = "file"}
  IN  [p \in {join(InDir, Pool[i].name) : i \in F} |->
         LET e == PoolEntry(basename(p))
         IN  [data |-> e.data, readable |-> e.readable, writable |-> TRUE]]

InitFS(S, d, hasIn) ==
  [dirs |-> {Root} \cup (IF hasIn THEN {InDir} ELSE {})
            \cup {join(InDir, Pool[i].name) : i \in {j \in S : Pool[j].kind = "dir"}}
            \cup d.dirs,
   wdirs |-> d.wdirs,
   files |-> SrcFiles(S) @@ d.files]

FS == [dirs |-> dirs, wdirs |-> wdirs, files |-> files]

NoErr == Return(<<>>)

InitRun(fs) ==
  /\ dirs = fs.dirs /\ wdirs = fs.wdirs /\ files = fs.files
  /\ listing = <<>> /\ idx = 0
  /\ data = <<>> /\ pkinfo = <<>> /\ esv = <<>> /\ dir_name = <<>>
  /\ stdout = <<>> /\ err = NoErr /\ exitcode = -1
  /\ opened = <<>> /\ copies = <<>> /\ checked = {}
  /\ snap = [dirs |-> fs.dirs, files |-> fs.files]
  /\ call = <<>> /\ ret = NoErr

Init ==
  /\ pc = "main"
  /\ pk_dir \in BOOLEAN
  /\ \E d \in DstStates :
       \/ \E S \in SUBSET (1..Len(Pool)) :
            Cardinality(S) <= MaxFiles /\ InitRun(InitFS(S, d, TRUE))
       \/ InitRun(InitFS({}, d, FALSE))

----------------------------------------------------------------------------
(* Control                                                                 *)

Goto(p) == pc' = p /\ UNCHANGED <<idx, err, exitcode>>

\* process_in_dir: the loop goes to entry i of the list l, or ends, and with
\* it main and the process, normally
NextFile(l, i) ==
  /\ idx' = i
  /\ UNCHANGED err
  /\ IF i <= Len(l) THEN pc' = "process_pkx" /\ UNCHANGED exitcode
     ELSE pc' = "exited" /\ exitcode' = 0

\* a loop that drops the exception of one file and goes on with the next
Uncaught_skip(e) ==
  /\ err' = e /\ idx' = idx + 1
  /\ IF idx + 1 <= Len(listing) THEN pc' = "process_pkx" /\ UNCHANGED exitcode
     ELSE pc' = "exited" /\ exitcode' = 0

\* an exception nothing catches ends the process: the interpreter prints the
\* traceback and exits with status 1
Uncaught(e) == pc' = "exited" /\ err' = e /\ exitcode' = 1 /\ UNCHANGED idx

\* a handler that prints the message and does not exit
main_except_continue(e) ==
  /\ stdout' = stdout \o <<<<"Processing", InDir>>, <<"Saving", OutDir>>, <<"RED", e.value>>>>
  /\ pc' = "process_in_dir" /\ UNCHANGED <<idx, err, exitcode>>

\* main: except IOError as err: print the message in red, exit(1)
main_except(e) ==
  /\ stdout' = stdout \o <<<<"Processing", InDir>>, <<"Saving", OutDir>>, <<"RED", e.value>>>>
  /\ pc' = "exited" /\ err' = e /\ exitcode' = 1 /\ UNCHANGED idx

UNCH_frame == UNCHANGED <<data, pkinfo, esv, dir_name>>
UNCH_hist == UNCHANGED <<opened, copies, checked, snap>>
UNCH_fn == UNCHANGED <<call, ret, pk_dir>>

\* the file the loop is at
current == join(InDir, listing[idx])

\* splitext(file)[1][1:]
ftype(file) == LET ext == splitext(file)[2] IN IF ext = <<>> THEN <<>> ELSE Tail(ext)

----------------------------------------------------------------------------
(* The steps of a run                                                      *)

\* main, to the call of process_in_dir
Main ==
  /\ pc = "main"
  /\ LET r == ensure_dir(FS, OutDir, StrObj(<<>>), <<>>)
     IN  /\ dirs' = r.fs.dirs /\ wdirs' = r.fs.wdirs
         /\ IF r.res.raised THEN main_except(r.res)
            ELSE /\ stdout' = stdout \o <<<<"Processing", InDir>>, <<"Saving", OutDir>>>>
                 /\ Goto("process_in_dir")
  /\ UNCHANGED <<files, listing>>
  /\ UNCH_frame /\ UNCH_hist /\ UNCH_fn

\* the lists listdir may return: the entries in any order
Listings(fs, d) ==
  LET N == {basename(p) : p \in {q \in fs.dirs \cup DOMAIN fs.files : q # d /\ dirname(q) = d}}
  IN  {l \in [1..Cardinality(N) -> N] : \A i, j \in 1..Cardinality(N) : l[i] = l[j] => i = j}

\* process_in_dir: listdir(in_dir)
ListDir ==
  /\ pc = "process_in_dir"
  /\ IF InDir \notin dirs
     THEN Uncaught(Raised("FileNotFoundError", InDir)) /\ UNCHANGED listing
     ELSE \E l \in Listings(FS, InDir) : listing' = l /\ NextFile(l, 1)
  /\ UNCHANGED <<dirs, wdirs, files, stdout>>
  /\ UNCH_frame /\ UNCH_hist /\ UNCH_fn

\* process_pkx: read_bin(file) and the test of the extension
ReadBin ==
  /\ pc = "process_pkx"
  /\ snap' = [dirs |-> dirs, files |-> files]
  /\ LET r == read_bin(FS, current)
     IN  IF r.raised
         THEN Uncaught(r) /\ UNCHANGED <<data, opened>>
         ELSE /\ opened' = Append(opened, current)
              /\ IF ftype(current) \in {PK6, PK7}
                 THEN data' = r.value /\ Goto("extract_pkdata")
                 ELSE data' = <<>> /\ NextFile(listing, idx + 1)
  /\ UNCHANGED <<dirs, wdirs, files, stdout, listing, pkinfo, esv, dir_name, copies, checked>>
  /\ UNCH_fn

\* process_pkx: pkinfo = extract_pkdata(data)
Extract ==
  /\ pc = "extract_pkdata"
  /\ LET r == extract_pkdata(data)
     IN  IF r.raised THEN Uncaught(r) /\ UNCHANGED pkinfo
         ELSE pkinfo' = r.value /\ Goto("get_esv")
  /\ UNCHANGED <<dirs, wdirs, files, stdout, listing, data, esv, dir_name>>
  /\ UNCH_hist /\ UNCH_fn

\* process_pkx: esv = get_esv(pkinfo.pid)
GetEsv ==
  /\ pc = "get_esv"
  /\ LET r == get_esv(pkinfo.pid)
     IN  IF r.raised THEN Uncaught(r) /\ UNCHANGED esv
         ELSE esv' = r.value /\ Goto("ensure_dir")
  /\ UNCHANGED <<dirs, wdirs, files, stdout, listing, data, pkinfo, dir_name>>
  /\ UNCH_hist /\ UNCH_fn

\* the tag of the first branch used in both
pkx_always_pk6(file) == IF ~pk_dir THEN <<>> ELSE <<"P", "K", "6">>

\* 'PK6' if pk_dir else '', 'PK7' if pk_dir else ''
pkx(file) ==
  IF ~pk_dir THEN <<>>
  ELSE IF ftype(file) = PK6 THEN <<"P", "K", "6">> ELSE <<"P", "K", "7">>

\* process_pkx: dir_name = ensure_dir(out_dir, esv, pkx)
EnsureDir ==
  /\ pc = "ensure_dir"
  /\ LET r == ensure_dir(FS, OutDir, IntObj(esv), pkx(current))
         name == ensure_dir_name(OutDir, IntObj(esv), pkx(current))
     IN  /\ dirs' = r.fs.dirs /\ wdirs' = r.fs.wdirs
         /\ checked' = IF access(r.fs, name) THEN checked \cup {<<current, name>>}
                       ELSE checked
         /\ IF r.res.raised THEN Uncaught(r.res) /\ UNCHANGED dir_name
            ELSE dir_name' = r.res.value /\ Goto("copy_file")
  /\ UNCHANGED <<files, stdout, listing, data, pkinfo, esv, opened, copies, snap>>
  /\ UNCH_fn

\* process_pkx: copy_file(dir_name, file)
CopyFile ==
  /\ pc = "copy_file"
  /\ LET r == copy_file(FS, dir_name, current)
     IN  /\ files' = r.fs.files
         /\ copies' = Append(copies, [src |-> current, dir |-> dir_name,
                                      dst |-> copy_name(dir_name, current),
                                      done |-> ~r.res.raised])
         /\ IF r.res.raised THEN Uncaught(r.res) ELSE Goto("print_info")
  /\ UNCHANGED <<dirs, wdirs, stdout, listing, opened, checked, snap>>
  /\ UNCH_frame /\ UNCH_fn

\* process_pkx: print_pk6info or print_pk7info, and the return to the loop
PrintInfo ==
  /\ pc = "print_info"
  /\ stdout' = Append(stdout, IF ftype(current) = PK6 THEN pk6info(current, pkinfo)
                              ELSE pk7info(current, pkinfo))
  /\ data' = <<>> /\ pkinfo' = <<>> /\ esv' = <<>> /\ dir_name' = <<>>
  /\ NextFile(listing, idx + 1)
  /\ UNCHANGED <<dirs, wdirs, files, listing>>
  /\ UNCH_hist /\ UNCH_fn

Next == Main \/ ListDir \/ ReadBin \/ Extract \/ GetEsv \/ EnsureDir \/ CopyFile \/ PrintInfo

Spec == Init /\ [][Next]_vars

----------------------------------------------------------------------------
(* Function-level runs: one function of the program applied once to        *)
(* arguments drawn from sample sets, in a destination of DstStates         *)

U16Samples == {k * 4369 : k \in 0..MaxSample} \cup {1, 15, 16, 4660, 22136, 32768, 65520, 65535}

PidSamples ==
  {PyInt(0, <<a, b>>) : a, b \in U16Samples}
  \cup {PyInt(0, <<0, 0, 1>>), PyInt(0, <<112, 0, 1>>), PyInt(0, <<0, 0, 0, 1>>),
        Py(-1), Py(-4096), Py(-65536), PyInt(-1, <<0, 0>>), PyInt(-1, <<1234, 5>>)}

BufSamples ==
  LET long == Egg(133, 1, 2, 22136, 4660) \o <<9, 8, 7>>
  IN  {SubSeq(long, 1, n) : n \in 0..Len(long)} \cup {Pool[i].data : i \in 1..Len(Pool)}

EsvArgSamples == {StrObj(<<>>)} \cup {IntObj(Py(n)) : n \in {0, 7, 1092, 4095}}
PkxSamples == {<<>>, <<"P", "K", "6">>, <<"P", "K", "7">>}

FnInit ==
  /\ pc = "call"
  /\ pk_dir = FALSE
  /\ \E d \in DstStates : InitRun(InitFS({}, d, TRUE))

Returned(c, r) ==
  /\ pc' = "returned" /\ call' = c /\ ret' = r
  /\ UNCHANGED <<pk_dir, listing, idx, stdout, err, exitcode>>
  /\ UNCH_frame /\ UNCH_hist

CallGetTsv ==
  /\ pc = "call"
  /\ \E a, b \in U16Samples :
       Returned(<<"get_tsv", Py(a), Py(b)>>, Return(get_tsv(Py(a), Py(b))))
  /\ UNCHANGED <<dirs, wdirs, files>>

CallGetEsv ==
  /\ pc = "call"
  /\ \E p \in PidSamples : Returned(<<"get_esv", p>>, get_esv(p))
  /\ UNCHANGED <<dirs, wdirs, files>>

CallExtract ==
  /\ pc = "call"
  /\ \E d \in BufSamples : Returned(<<"extract_pkdata", d>>, extract_pkdata(d))
  /\ UNCHANGED <<dirs, wdirs, files>>

CallEnsureDir ==
  /\ pc = "call"
  /\ \E e \in EsvArgSamples, t \in PkxSamples :
       LET r == ensure_dir(FS, OutDir, e, t)
       IN  /\ Returned(<<"ensure_dir", OutDir, e, t>>, r.res)
           /\ dirs' = r.fs.dirs /\ wdirs' = r.fs.wdirs
  /\ UNCHANGED files

FnNext == CallGetTsv \/ CallGetEsv \/ CallExtract \/ CallEnsureDir

FnSpec == FnInit /\ [][FnNext]_vars

----------------------------------------------------------------------------
(* Properties                                                              *)

Bit(n, k) == (n \div Pow2(k)) % 2

\* the 12-bit number whose bit k is bit k+4 of lo xor bit k+4 of hi
RECURSIVE ShinyBits(_, _, _)
ShinyBits(lo, hi, k) ==
  IF k > 11 THEN 0
  ELSE ((Bit(lo, k + 4) + Bit(hi, k + 4)) % 2) * Pow2(k) + ShinyBits(lo, hi, k + 1)

\* n in 0..9999 as four decimal digits
Pad4(n) == <<Digit(n \div 1000), Digit((n \div 100) % 10), Digit((n \div 10) % 10), Digit(n % 10)>>

\* 0 <= x <= 0xFFFFFFFF
In32(x) == x.sign = 0 /\ Len(x.limbs) <= 2

\* the length of the fixed record prefix
RecordPrefix == 4 + 6 * 2 + 4 + 4 * 1 + 4

\* the entries of the listing the loop has reached
Reached == {join(InDir, listing[j]) : j \in 1..Min(idx, Len(listing))}

\* the extension of a name of the pool, read off its last four characters
IsEgg(name) ==
  /\ Len(name) > 4
  /\ LastChars(name, 4) \in {<<".", "p", "k", "6">>, <<".", "p", "k", "7">>}

\* where the layout puts the copy of an egg of the pool
Target(name) ==
  LET e == PoolEntry(name)
      tag == IF name[Len(name)] = "6" THEN <<"P", "K", "6">> ELSE <<"P", "K", "7">>
  IN  OutDir \o (IF pk_dir THEN <<"/">> \o tag ELSE <<>>)
      \o <<"/">> \o Pad4(ShinyBits(e.pid[1], e.pid[2], 0))
      \o <<"/">> \o name

\* C1, as claimed: in every run that exits with code 1, no source file was
\* read and no copy was made.
C1_Claim ==
  (pc = "exited" /\ exitcode = 1) => (opened = <<>> /\ copies = <<>>)

\* C1, amended: whenever main has run and the destination root is not
\* writable, the run has ended with exit code 1 on the IOError of ensure_dir,
\* the source directory was not listed, and no source file was read or copied.
C1_RootFailure ==
  (pc # "main" /\ ~access(FS, OutDir))
    => /\ pc = "exited" /\ exitcode = 1
       /\ err.raised /\ err.type = "IOError" /\ err.value = OutDir
       /\ listing = <<>> /\ idx = 0
       /\ opened = <<>> /\ copies = <<>>

C1_Witness ==
  /\ pc = "exited" /\ exitcode = 1 /\ ~access(FS, OutDir)
  /\ \E p \in DOMAIN files : dirname(p) = InDir

\* C2, as claimed: an entry whose extension is neither pk6 nor pk7 raises no
\* error, whatever it is: a run never ends on an exception at such an entry.
C2_Claim ==
  (pc = "exited" /\ err.raised /\ idx \in 1..Len(listing))
    => ftype(current) \in {PK6, PK7}

C4_Esv ==
  (pc = "returned" /\ call[1] = "get_esv" /\ In32(call[2]))
    => /\ ~ret.raised
       /\ ret.value.sign = 0 /\ Small(ret.value)
       /\ ToInt(ret.value) \in 0..4095
       /\ ToInt(ret.value) = ShinyBits(Limb(call[2], 1), Limb(call[2], 2), 0)
       /\ (call[2].limbs = <<22136, 4660>> => ToInt(ret.value) = 1092)

C4_Witness ==
  /\ pc = "returned" /\ call[1] = "get_esv"
  /\ call[2].sign = 0 /\ call[2].limbs = <<22136, 4660>>
  /\ ~ret.raised /\ ret.value.limbs = <<1092>>

\* C5: extract_pkdata fails on a buffer shorter than the record prefix and
\* leaves no record, process_pkx has then created no directory and made no
\* copy for the file; a buffer at least as long decodes to the record of its
\* prefix, with the personality value the file was written with.
C5_Decode ==
  /\ (pc \in {"get_esv", "ensure_dir", "copy_file", "print_info"})
       => /\ Len(data) >= RecordPrefix
          /\ pkinfo = extract_pkdata(SubSeq(data, 1, RecordPrefix)).value
          /\ pkinfo.pid = PyInt(0, PoolEntry(listing[idx]).pid)
  /\ (err.raised /\ err.type = "struct.error")
       => /\ Len(data) < RecordPrefix
          /\ pkinfo = <<>>
          /\ dirs = snap.dirs /\ files = snap.files
          /\ \A k \in 1..Len(copies) : copies[k].src # current

C5_Witness ==
  /\ err.raised /\ err.type = "struct.error"
  /\ Len(data) = RecordPrefix - 1
  /\ copies # <<>>

\* C6, as claimed: get_esv fails exactly for the identifiers outside
\* 0..0xFFFFFFFF, the negative ones included.
C6_Claim ==
  (pc = "returned" /\ call[1] = "get_esv") => (ret.raised <=> ~In32(call[2]))

\* C7, as claimed: ensure_dir composes root[/tag][/NNNN] for every combination
\* of its optional arguments, a tag without a value giving root/tag.
C7_Claim ==
  (pc = "returned" /\ call[1] = "ensure_dir")
    => ret.value =
         call[2]
         \o (IF call[4] # <<>> THEN <<"/">> \o call[4] ELSE <<>>)
         \o (IF call[3].type = "int" THEN <<"/">> \o Pad4(ToInt(call[3].v)) ELSE <<>>)

\* C8: for all 16-bit a and b, get_tsv(a, b) = get_tsv(b, a), and the value
\* lies in 0..4095.
C8_Tsv ==
  (pc = "returned" /\ call[1] = "get_tsv")
    => /\ ret.value = get_tsv(call[3], call[2])
       /\ ret.value.sign = 0 /\ Small(ret.value)
       /\ ToInt(ret.value) \in 0..4095

C8_Witness ==
  /\ pc = "returned" /\ call[1] = "get_tsv"
  /\ call[2] = Py(4660) /\ call[3] = Py(65535)
  /\ ToInt(ret.value) = 3804

\* C9: a copy into a directory is attempted only after ensure_dir has found
\* that directory writable while processing the same file; when the check
\* fails ensure_dir raises IOError naming the path and the file is not copied.
C9_CheckedBeforeCopy ==
  /\ \A k \in 1..Len(copies) : <<copies[k].src, copies[k].dir>> \in checked
  /\ pc = "copy_file" => <<current, dir_name>> \in checked
  /\ (err.raised /\ err.type = "IOError" /\ idx >= 1)
       => /\ ~access(FS, err.value)
          /\ err.value = ensure_dir_name(OutDir, IntObj(esv), pkx(current))
          /\ \A k \in 1..Len(copies) : copies[k].src # current
          /\ files = snap.files

C9_Witness ==
  /\ err.raised /\ err.type = "IOError" /\ idx >= 1
  /\ copies # <<>>

\* C10: once an exception was raised for an entry the run has stopped: no
\* later entry of the listing was read or copied, and every copy made before
\* is in its target directory with the content of its source.
C10_NoIsolation ==
  err.raised
    => /\ pc = "exited" /\ exitcode = 1
       /\ \A k \in 1..Len(opened) : opened[k] \in Reached
       /\ \A k \in 1..Len(copies) :
            /\ copies[k].src \in Reached
            /\ copies[k].done
                 => /\ copies[k].dst \in DOMAIN files
                    /\ files[copies[k].dst].data = PoolEntry(basename(copies[k].src)).data

C10_Witness ==
  /\ err.raised /\ idx >= 1 /\ idx < Len(listing)
  /\ \E k \in 1..Len(copies) : copies[k].done

====
